---- MODULE Spec2Model ----
(***************************************************************************)
(* Family wishlist server: the JSON-file store, the normalizer run by      *)
(* loadData, the CSV text importer and the request handlers of the API.    *)
(*                                                                         *)
(* JavaScript values are represented as follows.                           *)
(*   string     a sequence of one-character strings ("ab" is <<"a","b">>)  *)
(*   number     an integer                                                 *)
(*   array      a sequence                                                 *)
(*   object     a function from keys to values; a key the object does not  *)
(*              have is a key outside its DOMAIN                           *)
(*   null       NULL, undefined  UNDEF: two one-element sequences whose     *)
(*              element is not a character, so they equal no string        *)
(***************************************************************************)
EXTENDS Integers, Sequences, FiniteSets, TLC

VARIABLES
  store,     \* the document in data.json
  last,      \* the handler that ran last and the response it sent
  requests,  \* the number of requests received so far
  flight,    \* the requests received whose handler has not run yet
  told       \* per item of the store: the viewer told {success: true} by a claim

vars == <<store, last, requests, flight, told>>

-----------------------------------------------------------------------------
(* Values *)

NULL == <<"<null>">>

UNDEF == <<"<undefined>">>

EMPTY == <<>>

\* JavaScript truthiness of null, undefined and strings.
Truthy(v) == v # NULL /\ v # UNDEF /\ v # EMPTY

\* a || b
Or(a, b) == IF Truthy(a) THEN a ELSE b

\* key in obj
Has(obj, k) == k \in DOMAIN obj

\* obj.k (undefined when the object has no such key)
Get(obj, k) == IF k \in DOMAIN obj THEN obj[k] ELSE UNDEF

\* obj.k = v
Put(obj, k, v) == (k :> v) @@ obj

\* String(v) for null, undefined and strings
String(v) ==
  IF v = NULL THEN <<"n", "u", "l", "l">>
  ELSE IF v = UNDEF THEN <<"u", "n", "d", "e", "f", "i", "n", "e", "d">>
  ELSE v

-----------------------------------------------------------------------------
(* String functions *)

UpperChars == <<"A", "B", "C", "D", "E", "F", "G", "H", "I", "J", "K", "L", "M",
                "N", "O", "P", "Q", "R", "S", "T", "U", "V", "W", "X", "Y", "Z">>

LowerChars == <<"a", "b", "c", "d", "e", "f", "g", "h", "i", "j", "k", "l", "m",
                "n", "o", "p", "q", "r", "s", "t", "u", "v", "w", "x", "y", "z">>

DigitChars == <<"0", "1", "2", "3", "4", "5", "6", "7", "8", "9">>

LowerChar(c) ==
  IF \E i \in 1..26 : UpperChars[i] = c
  THEN LowerChars[CHOOSE i \in 1..26 : UpperChars[i] = c]
  ELSE c

\* s.toLowerCase()
ToLowerCase(s) == [i \in 1..Len(s) |-> LowerChar(s[i])]

IsSpace(c) == c \in {" ", "\t", "\n", "\r"}

RECURSIVE TrimStart(_)
TrimStart(s) ==
  IF s # <<>> /\ IsSpace(Head(s)) THEN TrimStart(Tail(s)) ELSE s

RECURSIVE TrimEnd(_)
TrimEnd(s) ==
  IF s # <<>> /\ IsSpace(s[Len(s)]) THEN TrimEnd(SubSeq(s, 1, Len(s) - 1)) ELSE s

\* s.trim()
Trim(s) == TrimEnd(TrimStart(s))

RECURSIVE Join(_, _)
\* arr.join(sep)
Join(arr, sep) ==
  IF arr = <<>> THEN <<>>
  ELSE IF Len(arr) = 1 THEN arr[1]
  ELSE arr[1] \o sep \o Join(Tail(arr), sep)

RECURSIVE SplitLoop(_, _, _, _, _, _)
SplitLoop(s, seps, i, cur, inRun, out) ==
  IF i > Len(s) THEN Append(out, cur)
  ELSE IF s[i] \in seps
       THEN IF inRun THEN SplitLoop(s, seps, i + 1, cur, TRUE, out)
            ELSE SplitLoop(s, seps, i + 1, <<>>, TRUE, Append(out, cur))
       ELSE SplitLoop(s, seps, i + 1, Append(cur, s[i]), FALSE, out)

\* s.split(/[seps]+/): the pieces between maximal runs of separator characters
Split(s, seps) == SplitLoop(s, seps, 1, <<>>, FALSE, <<>>)

MapTrim(arr) == [i \in 1..Len(arr) |-> Trim(arr[i])]

FilterBoolean(arr) == SelectSeq(arr, LAMBDA t : t # <<>>)

\* s.split(/[seps]+/).map(s => s.trim()).filter(Boolean)
SplitTags(s, seps) == FilterBoolean(MapTrim(Split(s, seps)))

RECURSIVE DigitsValue(_, _)
DigitsValue(s, acc) ==
  IF s = <<>> THEN acc
  ELSE DigitsValue(Tail(s), 10 * acc + ((CHOOSE i \in 1..10 : DigitChars[i] = Head(s)) - 1))

AllDigits(s) == s # <<>> /\ \A i \in 1..Len(s) : \E d \in 1..10 : DigitChars[d] = s[i]

\* Number(v) || 0 for undefined, null, the empty string and decimal integer
\* strings with an optional sign. Every other string is NaN, which the callers
\* only test for truthiness, so it is returned as 0.
ToNumber(v) ==
  IF v = NULL \/ v = UNDEF THEN 0
  ELSE LET t == Trim(v) IN
       IF AllDigits(t) THEN DigitsValue(t, 0)
       ELSE IF t # <<>> /\ Head(t) = "-" /\ AllDigits(Tail(t)) THEN 0 - DigitsValue(Tail(t), 0)
       ELSE IF t # <<>> /\ Head(t) = "+" /\ AllDigits(Tail(t)) THEN DigitsValue(Tail(t), 0)
       ELSE 0

RECURSIVE NatToString(_)
\* `${c}` for a non-negative integer
NatToString(n) ==
  IF n < 10 THEN <<DigitChars[n + 1]>>
  ELSE NatToString(n \div 10) \o <<DigitChars[(n % 10) + 1]>>

Max(a, b) == IF a >= b THEN a ELSE b

-----------------------------------------------------------------------------
(* parseCsvText *)

RECURSIVE NormalizeEol(_)
\* text.replace(/\r\n/g, '\n').replace(/\r/g, '\n')
NormalizeEol(text) ==
  IF text = <<>> THEN <<>>
  ELSE IF Head(text) = "\r"
       THEN IF Len(text) >= 2 /\ text[2] = "\n"
            THEN <<"\n">> \o NormalizeEol(Tail(Tail(text)))
            ELSE <<"\n">> \o NormalizeEol(Tail(text))
       ELSE <<Head(text)>> \o NormalizeEol(Tail(text))

RECURSIVE RowsLoop(_, _, _, _, _)
\* The first loop of parseCsvText: cut the text into rows. A quote character
\* toggles inQuotes and is not copied into the row; a doubled quote inside
\* quotes is copied as one quote character.
RowsLoop(text, i, cur, inQuotes, rows) ==
  IF i > Len(text) THEN (IF cur # <<>> THEN Append(rows, cur) ELSE rows)
  ELSE IF text[i] = "\""
       THEN IF inQuotes /\ i + 1 <= Len(text) /\ text[i + 1] = "\""
            THEN RowsLoop(text, i + 2, Append(cur, "\""), inQuotes, rows)
            ELSE RowsLoop(text, i + 1, cur, ~inQuotes, rows)
       ELSE IF text[i] = "\n" /\ ~inQuotes
            THEN RowsLoop(text, i + 1, <<>>, inQuotes, Append(rows, cur))
            ELSE RowsLoop(text, i + 1, Append(cur, text[i]), inQuotes, rows)

RECURSIVE SplitRowLoop(_, _, _, _, _)
SplitRowLoop(row, i, cell, iq, cols) ==
  IF i > Len(row) THEN Append(cols, cell)
  ELSE IF row[i] = "\""
       THEN IF iq /\ i + 1 <= Len(row) /\ row[i + 1] = "\""
            THEN SplitRowLoop(row, i + 2, Append(cell, "\""), iq, cols)
            ELSE SplitRowLoop(row, i + 1, cell, ~iq, cols)
       ELSE IF row[i] = "," /\ ~iq
            THEN SplitRowLoop(row, i + 1, <<>>, iq, Append(cols, cell))
            ELSE SplitRowLoop(row, i + 1, Append(cell, row[i]), iq, cols)

splitRow(row) == MapTrim(SplitRowLoop(row, 1, <<>>, FALSE, <<>>))

\* The key of column c (counted from 1 here, from 0 in the code).
HeaderKey(header, c) ==
  IF header[c] # <<>> THEN ToLowerCase(header[c])
  ELSE <<"c", "o", "l">> \o NatToString(c - 1)

\* The record object of one data row: a later column overwrites an earlier
\* one with the same key; a missing cell is the empty string.
RowObject(header, fields) ==
  LET keys == {HeaderKey(header, c) : c \in 1..Len(header)}
      lastCol(k) == CHOOSE c \in 1..Len(header) :
                   /\ HeaderKey(header, c) = k
                   /\ \A d \in 1..Len(header) : HeaderKey(header, d) = k => d <= c
  IN [k \in keys |-> IF lastCol(k) <= Len(fields) THEN fields[lastCol(k)] ELSE <<>>]

parseCsvText(text) ==
  LET rows == RowsLoop(NormalizeEol(text), 1, <<>>, FALSE, <<>>)
  IN IF Len(rows) = 0 THEN <<>>
     ELSE LET header == MapTrim(splitRow(rows[1]))
              dataRows == SelectSeq(Tail(rows), LAMBDA row : Trim(row) # <<>>)
          IN [r \in 1..Len(dataRows) |-> RowObject(header, splitRow(dataRows[r]))]

-----------------------------------------------------------------------------
(* Data store: loadData and saveData *)

DEFAULT == <<"d", "e", "f", "a", "u", "l", "t">>

\* Number(it.k) || 0 for a numeric field that may be absent
NumField(it, k) == IF Has(it, k) THEN it[k] ELSE 0

RECURSIVE MaxSeenId(_)
\* data.items.reduce((m, it) => Math.max(m, Number(it.id) || 0, Number(it.itemId) || 0), 0)
MaxSeenId(items) ==
  IF items = <<>> THEN 0
  ELSE Max(MaxSeenId(SubSeq(items, 1, Len(items) - 1)),
           Max(NumField(items[Len(items)], "id"), NumField(items[Len(items)], "itemId")))

\* NormalizedId without the `if (!it.id)` guard.
NormalizedIdAlways(it, maxId) == maxId + 1

\* if (!it.id) { ... }: the id the item has after the first block of the loop
NormalizedId(it, maxId) ==
  IF NumField(it, "id") # 0 THEN it["id"]
  ELSE IF NumField(it, "itemId") # 0 THEN it["itemId"]
  ELSE maxId + 1

\* maxId after the first block of the loop
NormalizedMaxId(it, maxId) ==
  IF NumField(it, "id") # 0 THEN maxId
  ELSE IF NumField(it, "itemId") # 0 THEN Max(maxId, it["itemId"])
  ELSE maxId + 1

NormalizedDetails(it) ==
  IF Has(it, "details") THEN it["details"]
  ELSE IF Has(it, "notes") /\ it["notes"] # NULL THEN String(it["notes"])
  ELSE <<>>

NormalizedTags(it) ==
  IF Has(it, "tags") THEN it["tags"]
  ELSE IF Has(it, "tag") /\ it["tag"] # NULL /\ Trim(it["tag"]) # <<>>
       THEN SplitTags(it["tag"], {"/", "|", ","})
       ELSE <<>>

NormalizedFamily(obj) ==
  IF ~Has(obj, "family") \/ ~Truthy(obj["family"]) THEN DEFAULT ELSE obj["family"]

\* The body of data.items.forEach in loadData, for one item.
NormalizeItem(it, maxId) ==
  [id            |-> NormalizedId(it, maxId),
   details       |-> NormalizedDetails(it),
   tags          |-> NormalizedTags(it),
   claimedByCode |-> IF Has(it, "claimedByCode") THEN it["claimedByCode"] ELSE NULL,
   family        |-> NormalizedFamily(it)] @@ it

RECURSIVE NormalizeItems(_, _)
NormalizeItems(items, maxId) ==
  IF items = <<>> THEN <<>>
  ELSE <<NormalizeItem(Head(items), maxId)>>
       \o NormalizeItems(Tail(items), NormalizedMaxId(Head(items), maxId))

NormalizePerson(p) == Put(p, "family", NormalizedFamily(p))

\* loadData(): parse the file and normalize it. The file always exists here:
\* a missing file is the empty store.
loadData(file) ==
  [people |-> [i \in 1..Len(file.people) |-> NormalizePerson(file.people[i])],
   items  |-> NormalizeItems(file.items, MaxSeenId(file.items))]

\* The keys whose value is a number or an array, never undefined
NonStringKeys == {"id", "itemId", "tags"}

\* JSON.stringify drops the keys whose value is undefined.
Stringify(obj) ==
  [k \in {j \in DOMAIN obj : j \in NonStringKeys \/ obj[j] # UNDEF} |-> obj[k]]

\* saveData(data): the file content after the write
saveData(data) ==
  [people |-> [i \in 1..Len(data.people) |-> Stringify(data.people[i])],
   items  |-> [i \in 1..Len(data.items) |-> Stringify(data.items[i])]]

\* String(x.family || 'default') === String(family)
InFamily(x, family) == String(Or(Get(x, "family"), DEFAULT)) = String(family)

\* The index of the first element satisfying Test, 0 when there is none
\* (Array.prototype.find / findIndex).
FindIndex(arr, Test(_)) ==
  IF \E i \in 1..Len(arr) : Test(arr[i])
  THEN CHOOSE i \in 1..Len(arr) : Test(arr[i]) /\ \A j \in 1..(i - 1) : ~Test(arr[j])
  ELSE 0

\* arr.splice(i, 1)
RemoveAt(arr, i) == SubSeq(arr, 1, i - 1) \o SubSeq(arr, i + 1, Len(arr))

-----------------------------------------------------------------------------
(* Responses *)

Ok == [status |-> 200, success |-> TRUE, message |-> ""]

Fail(status, message) == [status |-> status, success |-> FALSE, message |-> message]

\* What a handler does: the file it leaves and the response it sends.
Outcome(file, response) == [file |-> file, resp |-> response]

-----------------------------------------------------------------------------
(* POST /api/admin/upload-csv-text *)

K_itemid == <<"i", "t", "e", "m", "i", "d">>
K_id == <<"i", "d">>
K_recipientcode == <<"r", "e", "c", "i", "p", "i", "e", "n", "t", "c", "o", "d", "e">>
K_recipient == <<"r", "e", "c", "i", "p", "i", "e", "n", "t">>
K_recipientname == <<"r", "e", "c", "i", "p", "i", "e", "n", "t", "n", "a", "m", "e">>
K_itemname == <<"i", "t", "e", "m", "n", "a", "m", "e">>
K_name == <<"n", "a", "m", "e">>
K_details == <<"d", "e", "t", "a", "i", "l", "s">>
K_notes == <<"n", "o", "t", "e", "s">>
K_tags == <<"t", "a", "g", "s">>
K_tag == <<"t", "a", "g">>
K_claimedbycode == <<"c", "l", "a", "i", "m", "e", "d", "b", "y", "c", "o", "d", "e">>
K_claimedby == <<"c", "l", "a", "i", "m", "e", "d", "b", "y">>
K_family == <<"f", "a", "m", "i", "l", "y">>
K_url == <<"u", "r", "l">>

\* Number(r.itemid || r.id || '')
RowIdNum(r) == ToNumber(Or(Or(Get(r, K_itemid), Get(r, K_id)), <<>>))

\* out.id
RowId(r, maxId) == IF RowIdNum(r) # 0 THEN RowIdNum(r) ELSE maxId + 1

\* maxId after the row
RowMaxId(r, maxId) ==
  IF RowIdNum(r) # 0 THEN Max(maxId, RowIdNum(r)) ELSE maxId + 1

RowTags(r) ==
  LET rawTags == Or(Or(Get(r, K_tags), Get(r, K_tag)), <<>>)
  IN IF Trim(rawTags) # <<>> THEN SplitTags(rawTags, {"/", "|", ",", ";"}) ELSE <<>>

\* The item built from one record (the body of records.forEach).
RowItem(r, maxId, bodyFamily) ==
  LET details == Or(Or(Get(r, K_details), Get(r, K_notes)), <<>>)
  IN [id            |-> RowId(r, maxId),
      itemId        |-> RowId(r, maxId),
      recipientCode |-> Or(Or(Get(r, K_recipientcode), Get(r, K_recipient)), <<>>),
      recipientName |-> Or(Or(Get(r, K_recipientname), Get(r, K_recipient)), <<>>),
      itemName      |-> Or(Or(Get(r, K_itemname), Get(r, K_name)), <<>>),
      details       |-> details,
      url           |-> Or(Get(r, K_url), <<>>),
      family        |-> Or(Or(Get(r, K_family), bodyFamily), DEFAULT),
      tags          |-> RowTags(r),
      claimedByCode |-> Or(Or(Or(Get(r, K_claimedbycode), Get(r, K_claimedby)), <<>>), NULL),
      notes         |-> details,
      tag           |-> Or(Join(RowTags(r), <<"/">>), <<>>)]

RECURSIVE RowItems(_, _, _)
\* The items added by records.forEach, in order
RowItems(records, maxId, bodyFamily) ==
  IF records = <<>> THEN <<>>
  ELSE <<RowItem(Head(records), maxId, bodyFamily)>>
       \o RowItems(Tail(records), RowMaxId(Head(records), maxId), bodyFamily)

UploadCsvText(file, csv, bodyFamily) ==
  IF ~Truthy(csv)
  THEN Outcome(file, Fail(400, "Missing csv text in request body"))
  ELSE LET records == parseCsvText(csv) IN
       IF Len(records) = 0
       THEN Outcome(file, [status |-> 200, success |-> TRUE, message |-> "No rows to add.", added |-> 0])
       ELSE LET data == loadData(file)
                added == RowItems(records, MaxSeenId(data.items), bodyFamily)
            IN Outcome(saveData([data EXCEPT !.items = data.items \o added]),
                       [status |-> 200, success |-> TRUE, message |-> "", added |-> Len(added)])

-----------------------------------------------------------------------------
(* POST /api/claim and POST /api/unclaim *)

\* data.items.find(i => i.id === idNum && String(i.family || 'default') === String(family))
\* FindItem without the family test.
FindItemAnyFamily(items, idNum, family) ==
  FindIndex(items, LAMBDA i : NumField(i, "id") = idNum)

FindItem(items, idNum, family) ==
  FindIndex(items, LAMBDA i : NumField(i, "id") = idNum /\ InFamily(i, family))

\* Claim without the "already claimed by someone else" test.
ClaimOverwrite(file, viewerCode, itemId, reqFamily) ==
  LET family == Or(reqFamily, DEFAULT)
      data == loadData(file)
      idx == FindItem(data.items, itemId, family)
  IN IF idx = 0 THEN Outcome(file, [status |-> 200, success |-> FALSE, message |-> "Item not found."])
     ELSE Outcome(saveData([data EXCEPT !.items[idx] = Put(@, "claimedByCode", viewerCode)]), Ok)

\* Claim that answers success without calling saveData.
ClaimNoSave(file, viewerCode, itemId, reqFamily) ==
  LET family == Or(reqFamily, DEFAULT)
      data == loadData(file)
      idx == FindItem(data.items, itemId, family)
  IN IF idx = 0 THEN Outcome(file, [status |-> 200, success |-> FALSE, message |-> "Item not found."])
     ELSE IF Truthy(data.items[idx]["claimedByCode"]) /\ data.items[idx]["claimedByCode"] # viewerCode
     THEN Outcome(file, [status |-> 200, success |-> FALSE, message |-> "This item was already claimed."])
     ELSE Outcome(file, Ok)

Claim(file, viewerCode, itemId, reqFamily) ==
  LET family == Or(reqFamily, DEFAULT)
      data == loadData(file)
      idx == FindItem(data.items, itemId, family)
  IN IF idx = 0 THEN Outcome(file, [status |-> 200, success |-> FALSE, message |-> "Item not found."])
     ELSE IF Truthy(data.items[idx]["claimedByCode"]) /\ data.items[idx]["claimedByCode"] # viewerCode
     THEN Outcome(file, [status |-> 200, success |-> FALSE, message |-> "This item was already claimed."])
     ELSE Outcome(saveData([data EXCEPT !.items[idx] = Put(@, "claimedByCode", viewerCode)]), Ok)

Unclaim(file, viewerCode, itemId, reqFamily) ==
  LET family == Or(reqFamily, DEFAULT)
      data == loadData(file)
      idx == FindItem(data.items, itemId, family)
  IN IF idx = 0 THEN Outcome(file, [status |-> 200, success |-> FALSE, message |-> "Item not found."])
     ELSE IF data.items[idx]["claimedByCode"] # viewerCode
     THEN Outcome(file, [status |-> 200, success |-> FALSE, message |-> "You can only unclaim items you claimed."])
     ELSE Outcome(saveData([data EXCEPT !.items[idx] = Put(@, "claimedByCode", NULL)]), Ok)

-----------------------------------------------------------------------------
(* GET /api/admin/items *)

AdminItems(file, qFamily) ==
  LET family == Or(qFamily, DEFAULT)
      data == loadData(file)
  IN Outcome(file, [status |-> 200, success |-> TRUE, message |-> "",
                    items |-> SelectSeq(data.items, LAMBDA it : InFamily(it, family))])

-----------------------------------------------------------------------------
(* PUT /api/admin/item/:id *)

\* A `tags` value of the request body: an array of strings, a string, or
\* anything else.
TagsArray(arr) == [type |-> "array", value |-> arr]

TagsString(str) == [type |-> "string", value |-> str]

\* if ('tags' in body) { ... }
EditedTags(item, body) ==
  IF ~Has(body, "tags") THEN item["tags"]
  ELSE IF body["tags"].type = "array"
       THEN FilterBoolean(MapTrim([i \in 1..Len(body["tags"].value) |-> String(body["tags"].value[i])]))
  ELSE IF body["tags"].type = "string"
       THEN SplitTags(body["tags"].value, {"/", "|", ",", ";"})
  ELSE item["tags"]

\* if ('k' in body) item.k = String(body.k || '')
EditedString(item, body, k) ==
  IF Has(body, k) THEN String(Or(body[k], <<>>)) ELSE Get(item, k)

\* item.details after the `details` and `notes` assignments
EditedDetails(item, body) ==
  LET d1 == EditedString(item, body, "details")
  IN IF Has(body, "notes") THEN String(Or(Or(body["notes"], d1), <<>>)) ELSE d1

\* SyncLegacy that rewrites nothing.
SyncLegacyNone(item) == item

\* keep legacy fields in sync: the item with notes and tag rewritten
SyncLegacy(item) ==
  [notes |-> item["details"], tag |-> Or(Join(item["tags"], <<"/">>), <<>>)] @@ item

\* The item after the assignments of the handler.
EditedItem(item, body, family) ==
  LET e1 == [recipientCode |-> EditedString(item, body, "recipientCode"),
             recipientName |-> EditedString(item, body, "recipientName"),
             itemName      |-> EditedString(item, body, "itemName"),
             details       |-> EditedDetails(item, body),
             url           |-> EditedString(item, body, "url"),
             claimedByCode |-> IF Has(body, "claimedByCode")
                               THEN Or(body["claimedByCode"], NULL)
                               ELSE item["claimedByCode"],
             tags          |-> EditedTags(item, body)] @@ item
      e2 == SyncLegacy(e1)
  IN IF ~Truthy(Get(e2, "family")) THEN Put(e2, "family", family) ELSE e2

UpdateItem(file, id, qFamily, body) ==
  IF id = 0 THEN Outcome(file, Fail(400, "Invalid id"))
  ELSE LET data == loadData(file)
           family == Or(Or(qFamily, Get(body, "family")), DEFAULT)
           idx == FindIndex(data.items, LAMBDA i :
                    /\ (NumField(i, "id") = id \/ NumField(i, "itemId") = id)
                    /\ InFamily(i, family))
       IN IF idx = 0 THEN Outcome(file, Fail(404, "Item not found"))
          ELSE Outcome(saveData([data EXCEPT !.items[idx] = EditedItem(@, body, family)]), Ok)

-----------------------------------------------------------------------------
(* POST, PUT and DELETE /api/admin/person *)

\* CodeTaken comparing the codes as they are written.
CodeTakenExact(people, code) ==
  \E i \in 1..Len(people) : String(people[i]["code"]) = code

\* data.people.find(p => String(p.code).toLowerCase() === code.toLowerCase())
CodeTaken(people, code) ==
  \E i \in 1..Len(people) : ToLowerCase(String(people[i]["code"])) = ToLowerCase(code)

CreatePerson(file, body, qFamily) ==
  LET code == Trim(String(Or(Get(body, "code"), <<>>)))
      name == Trim(String(Or(Get(body, "name"), <<>>)))
      preferences == Or(Get(body, "preferences"), <<>>)
      family == Or(Or(Get(body, "family"), qFamily), DEFAULT)
  IN IF code = <<>> THEN Outcome(file, Fail(400, "Missing code"))
     ELSE LET data == loadData(file) IN
          IF CodeTaken(data.people, code)
          THEN Outcome(file, Fail(409, "Person with this code already exists"))
          ELSE Outcome(saveData([data EXCEPT !.people =
                          Append(@, [code |-> code, name |-> name,
                                     preferences |-> preferences, family |-> family])]), Ok)

\* data.people.find(p => String(p.code) === String(code)
\*                       && String(p.family || 'default') === String(family))
FindPerson(people, code, family) ==
  FindIndex(people, LAMBDA p : String(p["code"]) = String(code) /\ InFamily(p, family))

\* EditedPerson that stores the family of the body as typed, blank or not.
EditedPersonAsTyped(person, body, lookupFamily) ==
  LET p1 == IF Has(body, "name") THEN Put(person, "name", String(Or(body["name"], <<>>))) ELSE person
      p2 == IF Has(body, "preferences") THEN Put(p1, "preferences", Or(body["preferences"], <<>>)) ELSE p1
  IN IF Has(body, "family")
     THEN Put(p2, "family", Trim(Or(body["family"], <<>>)))
     ELSE p2

\* The person after the assignments of the PUT handler.
EditedPerson(person, body, lookupFamily) ==
  LET p1 == IF Has(body, "name") THEN Put(person, "name", String(Or(body["name"], <<>>))) ELSE person
      p2 == IF Has(body, "preferences") THEN Put(p1, "preferences", Or(body["preferences"], <<>>)) ELSE p1
  IN IF Has(body, "family")
     THEN Put(p2, "family", Or(Trim(Or(body["family"], <<>>)), DEFAULT))
     ELSE IF ~Truthy(Get(p2, "family")) THEN Put(p2, "family", Or(lookupFamily, DEFAULT))
     ELSE p2

UpdatePerson(file, code, qFamily, body) ==
  IF ~Truthy(code) THEN Outcome(file, Fail(400, "Missing person code"))
  ELSE LET data == loadData(file)
           lookupFamily == Or(Or(qFamily, Get(body, "family")), DEFAULT)
           idx == FindPerson(data.people, code, lookupFamily)
       IN IF idx = 0 THEN Outcome(file, Fail(404, "Person not found"))
          ELSE Outcome(saveData([data EXCEPT !.people[idx] = EditedPerson(@, body, lookupFamily)]), Ok)

\* KeptItem without the family test.
KeptItemAnyFamily(it, code, family) ==
  ~(String(Get(it, "recipientCode")) = String(code))

\* it => !(String(it.recipientCode) === String(code) && String(it.family || 'default') === String(family))
KeptItem(it, code, family) ==
  ~(String(Get(it, "recipientCode")) = String(code) /\ InFamily(it, family))

DeletePerson(file, code, qFamily) ==
  IF ~Truthy(code) THEN Outcome(file, Fail(400, "Missing code"))
  ELSE LET data == loadData(file)
           family == Or(qFamily, DEFAULT)
           idx == FindPerson(data.people, code, family)
       IN IF idx = 0 THEN Outcome(file, Fail(404, "Person not found"))
          ELSE Outcome(saveData([people |-> RemoveAt(data.people, idx),
                                 items  |-> SelectSeq(data.items, LAMBDA it : KeptItem(it, code, family))]),
                       Ok)

-----------------------------------------------------------------------------
(* Bounds and inputs *)

\* The runs explored handle at most MaxRequests requests, and their stores
\* hold at most MaxItems items and MaxPeople people.
MaxRequests == 2

MaxItems == 3

MaxPeople == 2

LAUREN == <<"L", "A", "U", "R", "E", "N">>

TOM == <<"T", "O", "M">>

ANN == <<"A", "N", "N">>

RIGSBY == <<"R", "i", "g", "s", "b", "y">>

\* An item with every field the importer writes.
FullItem(id, recipientCode, itemName, details, tags, claimedByCode, family) ==
  [id |-> id, itemId |-> id, recipientCode |-> recipientCode, recipientName |-> <<>>,
   itemName |-> itemName, details |-> details, url |-> <<>>, family |-> family,
   tags |-> tags, claimedByCode |-> claimedByCode, notes |-> details,
   tag |-> Join(tags, <<"/">>)]

FullPerson(code, family) ==
  [code |-> code, name |-> <<>>, preferences |-> <<>>, family |-> family]

SeedEmpty == [people |-> <<>>, items |-> <<>>]

\* Two families that each have a person LAUREN and an item for her.
SeedFamilies ==
  [people |-> <<FullPerson(LAUREN, DEFAULT), FullPerson(LAUREN, RIGSBY)>>,
   items  |-> <<FullItem(1, LAUREN, <<"B", "i", "k", "e">>, <<"x">>, <<<<"r", "e", "d">>>>, NULL, DEFAULT),
                FullItem(2, LAUREN, <<"H", "a", "t">>, <<>>, <<>>, TOM, RIGSBY)>>]

\* A file written before the id, details, tags, claimedByCode and family
\* fields existed, and one record that has only the new fields.
SeedLegacy ==
  [people |-> <<[code |-> TOM, name |-> <<>>, preferences |-> <<>>]>>,
   items  |-> <<[itemId |-> 1, recipientCode |-> TOM, recipientName |-> <<>>,
                 itemName |-> <<"H", "a", "t">>, notes |-> <<"w">>, tag |-> <<"a", ",", "b">>,
                 url |-> <<>>],
                [recipientCode |-> TOM, recipientName |-> <<>>, itemName |-> <<"K", "i", "t", "e">>,
                 details |-> <<"x">>, tags |-> <<<<"a">>>>, url |-> <<>>, claimedByCode |-> ANN]>>]

Seeds == {SeedEmpty, SeedFamilies, SeedLegacy}

\* viewerCode of a claim or unclaim request: two codes, null, or missing
ViewerCodes == {TOM, ANN, NULL, UNDEF}

ItemIds == 1..3

\* family of a request: missing, or Rigsby
Families == {UNDEF, RIGSBY}

PersonCodes == {LAUREN, TOM}

\* The text of section 8 of the specification.
CsvBike ==
  <<"i", "t", "e", "m", "N", "a", "m", "e", ",", "r", "e", "c", "i", "p", "i", "e", "n", "t",
    "C", "o", "d", "e", ",", "t", "a", "g", "s", "\n",
    "B", "i", "k", "e", ",", "L", "A", "U", "R", "E", "N", ",", "\"", "r", "e", "d", ",",
    "s", "h", "i", "n", "y", "\"", "\n">>

\* A row with a numeric id, legacy column names and a family.
CsvHat ==
  <<"i", "d", ",", "n", "a", "m", "e", ",", "r", "e", "c", "i", "p", "i", "e", "n", "t", ",",
    "n", "o", "t", "e", "s", ",", "t", "a", "g", ",", "f", "a", "m", "i", "l", "y", "\n",
    "1", ",", "H", "a", "t", ",", "T", "O", "M", ",", "w", ",", "a", ";", "b", ",",
    "R", "i", "g", "s", "b", "y">>

\* A row without an id followed by a row with the id 1.
CsvTwoRows ==
  <<"n", "a", "m", "e", ",", "i", "d", "\r", "\n", "C", "a", "r", "\r", "\n",
    "P", "e", "n", ",", "1", "\r", "\n">>

\* A header and no data row.
CsvHeaderOnly == <<"n", "a", "m", "e", ",", "i", "d", "\n">>

CsvTexts == {UNDEF, CsvBike, CsvHat, CsvTwoRows, CsvHeaderOnly}

\* Bodies of PUT /api/admin/item/:id: each subset of details, notes and tags,
\* the tags as an array, as a delimited string or as neither, and the other
\* updatable fields.
ItemBodies ==
  { <<>>,
    [details |-> <<"n">>],
    [notes |-> <<"n">>],
    [notes |-> <<>>, tags |-> [type |-> "other", value |-> 0]],
    [details |-> <<"n">>, notes |-> <<>>],
    [tags |-> TagsArray(<<<<" ", "a">>, <<>>, <<"b">>>>)],
    [details |-> NULL, tags |-> TagsString(<<"a", ";", "b">>)],
    [details |-> <<"n">>, notes |-> <<"n">>, tags |-> TagsString(<<"a", "|", ",", "b", " ">>)],
    [url |-> NULL, claimedByCode |-> <<>>] }

\* Bodies of POST /api/admin/person: no code, a blank code, a code that
\* differs from LAUREN in letter case only, and a new code in a family.
CreateBodies ==
  { [name |-> <<"B", "o">>],
    [code |-> <<" ">>],
    [code |-> <<"l", "a", "u", "r", "e", "n">>],
    [code |-> <<" ", "A", "N", "N">>, family |-> RIGSBY] }

\* Bodies of PUT /api/admin/person/:code
PersonBodies ==
  { [name |-> NULL],
    [family |-> RIGSBY],
    [family |-> <<" ">>, preferences |-> NULL] }

-----------------------------------------------------------------------------
(* The server: one request at a time, each handled to completion *)

Init ==
  /\ store \in Seeds
  /\ last = [op |-> "start", resp |-> Ok]
  /\ requests = 0
  /\ flight = {}
  /\ told = <<>>

\* A request is handled to completion: the file is what the handler leaves,
\* and last records the handler and the response it sent.
Handle(op, outcome) ==
  /\ requests < MaxRequests
  /\ \E out \in {outcome} :
       /\ Len(out.file.items) <= MaxItems
       /\ Len(out.file.people) <= MaxPeople
       /\ store' = out.file
       /\ last' = [op |-> op, resp |-> out.resp]
  /\ requests' = requests + 1
  /\ UNCHANGED <<flight, told>>

PostClaim ==
  \E v \in ViewerCodes, id \in ItemIds, f \in Families :
    Handle("claim", Claim(store, v, id, f))

PostUnclaim ==
  \E v \in ViewerCodes, id \in ItemIds, f \in Families :
    Handle("unclaim", Unclaim(store, v, id, f))

PostUploadCsvText ==
  \E csv \in CsvTexts, f \in Families :
    Handle("upload", UploadCsvText(store, csv, f))

GetAdminItems ==
  \E f \in Families :
    Handle("items", AdminItems(store, f))

PutItem ==
  \E id \in {0} \cup ItemIds, f \in Families, body \in ItemBodies :
    Handle("putItem", UpdateItem(store, id, f, body))

PostPerson ==
  \E body \in CreateBodies, f \in Families :
    Handle("postPerson", CreatePerson(store, body, f))

PutPerson ==
  \E code \in PersonCodes, f \in Families, body \in PersonBodies :
    Handle("putPerson", UpdatePerson(store, code, f, body))

DeletePersonReq ==
  \E code \in PersonCodes, f \in Families :
    Handle("deletePerson", DeletePerson(store, code, f))

Next ==
  \/ PostClaim
  \/ PostUnclaim
  \/ PostUploadCsvText
  \/ GetAdminItems
  \/ PutItem
  \/ PostPerson
  \/ PutPerson
  \/ DeletePersonReq

Spec == Init /\ [][Next]_vars

-----------------------------------------------------------------------------
(* Properties of the claim and unclaim handlers *)

\* Codes of two different viewers.
Codes == {TOM, ANN}

\* claimedByCode of the idx-th item as a handler sees it after loadData
ClaimedBy(file, idx) == loadData(file).items[idx]["claimedByCode"]

\* C1: for viewer codes V and W with W # V and an item found by id within the
\* request's family: a claim by V on the item while it is unclaimed (or claimed
\* by V) succeeds and sets claimedByCode to V; the same claim repeated succeeds
\* and leaves claimedByCode = V; a claim by W while it is claimed by V fails
\* with the "already claimed" message and leaves the file unchanged.
C1_ClaimByOneViewer ==
  LET data == loadData(store) IN
  \A id \in ItemIds, f \in Families :
    LET idx == FindItem(data.items, id, Or(f, DEFAULT)) IN
    idx # 0 =>
      \A v \in Codes : \A w \in Codes \ {v} :
        LET first == Claim(store, v, id, f)
            again == Claim(first.file, v, id, f)
            other == Claim(again.file, w, id, f)
        IN data.items[idx]["claimedByCode"] \in {NULL, v} =>
             /\ first.resp.success
             /\ first.file.items[idx]["claimedByCode"] = v
             /\ again.resp.success
             /\ again.file.items[idx]["claimedByCode"] = v
             /\ ~other.resp.success
             /\ other.resp.message = "This item was already claimed."
             /\ other.file = again.file

\* A claim has just been refused because another viewer holds the item.
C1_Witness ==
  /\ last.op = "claim"
  /\ last.resp.message = "This item was already claimed."
  /\ \E i \in 1..Len(store.items) : ClaimedBy(store, i) \in Codes

\* C2: for every viewerCode a request can carry (a code, null, or none) and an
\* item found by id within the request's family: an unclaim on an item that is
\* unclaimed or claimed by someone else fails with the permission message and
\* leaves the file unchanged; an unclaim by the claimant sets claimedByCode to
\* null.
C2_UnclaimOnlyByClaimant ==
  \A v \in ViewerCodes, id \in ItemIds, f \in Families :
    LET idx == FindItem(loadData(store).items, id, Or(f, DEFAULT))
        o == Unclaim(store, v, id, f)
    IN idx # 0 =>
         IF ClaimedBy(store, idx) # NULL /\ ClaimedBy(store, idx) = v
         THEN o.resp.success /\ o.file.items[idx]["claimedByCode"] = NULL
         ELSE /\ ~o.resp.success
              /\ o.resp.message = "You can only unclaim items you claimed."
              /\ o.file = store

-----------------------------------------------------------------------------
(* Properties of the person handlers *)

\* p is a person (or it an item's recipient) with this code in this family
IsPerson(p, code, family) == p["code"] = code /\ p["family"] = family

\* C3: DELETE /admin/person/:code?family=F. When the loaded store has no person
\* with that code in family F the answer is 404 and the file is unchanged.
\* Otherwise one person with that code in family F (the first) is removed, and
\* exactly the items whose recipientCode is that code and whose family is F;
\* every other person and item stays as loaded, in order, those of other
\* families with the same code included.
C3_DeletePersonCascade ==
  LET data == loadData(store) IN
  \A code \in PersonCodes, f \in Families :
    LET F == Or(f, DEFAULT)
        o == DeletePerson(store, code, f)
        matches == {i \in 1..Len(data.people) : IsPerson(data.people[i], code, F)}
    IN IF matches = {}
       THEN o.resp.status = 404 /\ o.file = store
       ELSE /\ o.resp.success
            /\ \E k \in matches :
                 /\ \A j \in matches : k <= j
                 /\ o.file.people = [i \in 1..(Len(data.people) - 1) |->
                                       IF i < k THEN data.people[i] ELSE data.people[i + 1]]
            /\ o.file.items = SelectSeq(data.items, LAMBDA it :
                                ~(it["recipientCode"] = code /\ it["family"] = F))

\* A person was just deleted while another family keeps a person and an item
\* with the same code.
C3_Witness ==
  /\ last.op = "deletePerson"
  /\ last.resp.success
  /\ \E i \in 1..Len(store.people) : store.people[i]["code"] = LAUREN
  /\ \E i \in 1..Len(store.items) : store.items[i]["recipientCode"] = LAUREN
  /\ Len(store.items) = 1

\* C4: POST /admin/person. With a missing or blank code the answer is 400 and
\* the file is unchanged; with a code (trimmed) equal, ignoring letter case, to
\* the code of a person of any family the answer is 409 and the file is
\* unchanged; otherwise exactly one person with that code is appended.
C4_CreatePerson ==
  LET data == loadData(store) IN
  \A body \in CreateBodies, f \in Families :
    LET code == IF Has(body, "code") THEN Trim(body["code"]) ELSE <<>>
        o == CreatePerson(store, body, f)
    IN IF code = <<>>
       THEN o.resp.status = 400 /\ o.file = store
       ELSE IF \E i \in 1..Len(store.people) :
                 ToLowerCase(store.people[i]["code"]) = ToLowerCase(code)
       THEN o.resp.status = 409 /\ o.file = store
       ELSE /\ o.resp.success
            /\ Len(o.file.people) = Len(data.people) + 1
            /\ SubSeq(o.file.people, 1, Len(data.people)) = data.people
            /\ o.file.people[Len(o.file.people)]["code"] = code
            /\ o.file.items = data.items

\* A create was just refused with 409 for a code that differs from an existing
\* one in letter case only.
C4_Witness ==
  /\ last.op = "postPerson"
  /\ last.resp.status = 409
  /\ \E i \in 1..Len(store.people) : store.people[i]["code"] = LAUREN
  /\ \A i \in 1..Len(store.people) : store.people[i]["code"] # <<"l", "a", "u", "r", "e", "n">>

-----------------------------------------------------------------------------
(* Properties of the items of the store *)

\* The last request wrote the file.
Wrote ==
  /\ last.op \in {"claim", "unclaim", "upload", "putItem", "postPerson", "putPerson", "deletePerson"}
  /\ last.resp.success
  /\ last.resp.message = ""

\* C5: starting from an empty store or one whose ids are unique (every seed is
\* one), no two items of the persisted store have the same id, whatever their
\* families.
C5_IdsUnique ==
  \A i, j \in 1..Len(store.items) :
    (i # j /\ Has(store.items[i], "id") /\ Has(store.items[j], "id"))
      => store.items[i]["id"] # store.items[j]["id"]

\* C6: after any write, every persisted item has notes equal to details and
\* tag equal to its tags joined by "/".
C6_AliasesConsistent ==
  Wrote =>
    \A i \in 1..Len(store.items) :
      LET it == store.items[i] IN
        /\ Has(it, "notes") /\ Has(it, "details") /\ it["notes"] = it["details"]
        /\ Has(it, "tag") /\ Has(it, "tags") /\ it["tag"] = Join(it["tags"], <<"/">>)

\* C7: PUT /admin/item/:id. An id that is not a non-zero number yields 400 and
\* an id that no item of the request's family has yields 404, both leaving the
\* file unchanged; otherwise the request succeeds and the edited item has
\* notes equal to details and tag equal to its tags joined by "/", whatever
\* subset of details, notes and tags the body carries.
C7_EditKeepsAliases ==
  LET data == loadData(store) IN
  \A id \in {0} \cup ItemIds, f \in Families :
    LET F == Or(f, DEFAULT)
        found == {i \in 1..Len(data.items) : data.items[i]["id"] = id /\ data.items[i]["family"] = F}
    IN \A body \in ItemBodies :
         \A o \in {UpdateItem(store, id, f, body)} :
            IF id = 0 THEN o.resp.status = 400 /\ o.file = store
            ELSE IF found = {} THEN o.resp.status = 404 /\ o.file = store
            ELSE /\ o.resp.success
                 /\ Len(o.file.items) = Len(data.items)
                 /\ \E k \in found :
                      /\ \A j \in found : k <= j
                      /\ o.file.items[k]["notes"] = o.file.items[k]["details"]
                      /\ o.file.items[k]["tag"] = Join(o.file.items[k]["tags"], <<"/">>)
                      /\ \A i \in 1..Len(data.items) : i # k => o.file.items[i] = data.items[i]

\* An edit has just rewritten the details and tags of an item, and its aliases
\* follow.
C7_Witness ==
  /\ last.op = "putItem"
  /\ last.resp.success
  /\ \E i \in 1..Len(store.items) :
       /\ store.items[i]["details"] = <<"n">>
       /\ store.items[i]["notes"] = <<"n">>
       /\ store.items[i]["tags"] = <<<<"a">>, <<"b">>>>
       /\ store.items[i]["tag"] = <<"a", "/", "b">>

-----------------------------------------------------------------------------
(* Properties of the CSV importer *)

\* C8: importing the text of section 8 adds exactly one item, with itemName
\* "Bike", recipientCode "LAUREN" and tags ["red", "shiny"].
C8_QuotedComma ==
  \A f \in Families :
    LET o == UploadCsvText(store, CsvBike, f)
        added == o.file.items[Len(o.file.items)]
    IN /\ o.resp.success
       /\ Len(o.file.items) = Len(store.items) + 1
       /\ added["itemName"] = <<"B", "i", "k", "e">>
       /\ added["recipientCode"] = LAUREN
       /\ added["tags"] = <<<<"r", "e", "d">>, <<"s", "h", "i", "n", "y">>>>

\* C9: in an import, every row without a numeric id gets an id greater than
\* every id and itemId already in the store; the ids of successive such rows
\* increase by one; no such id equals the id of another item added by the same
\* import; and each added item has itemId equal to id.
C9_FreshIds ==
  \A csv \in CsvTexts \ {UNDEF}, f \in Families :
    LET records == parseCsvText(csv)
        data == loadData(store)
        o == UploadCsvText(store, csv, f)
        n == Len(data.items)
        added(r) == o.file.items[n + r]
        fresh == {r \in 1..Len(records) : RowIdNum(records[r]) = 0}
    IN Len(records) > 0 =>
         /\ Len(o.file.items) = n + Len(records)
         /\ \A r \in 1..Len(records) : added(r)["itemId"] = added(r)["id"]
         /\ \A r \in fresh :
              /\ \A i \in 1..n : /\ added(r)["id"] > data.items[i]["id"]
                                 /\ added(r)["id"] > NumField(data.items[i], "itemId")
              /\ \A q \in fresh :
                   (q < r /\ \A m \in fresh : ~(q < m /\ m < r))
                     => added(r)["id"] = added(q)["id"] + 1
              /\ \A q \in 1..Len(records) : q # r => added(q)["id"] # added(r)["id"]

-----------------------------------------------------------------------------
(* Properties of the normalizer *)

\* C10: the normalizer of loadData is idempotent: normalizing a normalized
\* store changes nothing, also after the store went through the file.
C10_NormalizeIdempotent ==
  /\ loadData(loadData(store)) = loadData(store)
  /\ loadData(saveData(loadData(store))) = loadData(store)

\* A request has just loaded a file of legacy records, which normalizing
\* changes.
C10_Witness ==
  /\ last.op = "items"
  /\ loadData(store) # store
  /\ \E i \in 1..Len(store.items) : ~Has(store.items[i], "id")

-----------------------------------------------------------------------------
(* The server with several requests in flight *)

\* Every handler is one synchronous callback: loadData reads the file with
\* fs.readFileSync, saveData writes it with fs.writeFileSync, and no handler
\* awaits, yields or registers a callback between the two. Node runs a
\* callback to completion before it starts the next one, so the requests in
\* flight are handled one at a time. The order in which their handlers run is
\* not the order of arrival (express.json reads each body asynchronously).

\* A store of one family with two unclaimed items.
SeedShared ==
  [people |-> <<FullPerson(LAUREN, DEFAULT)>>,
   items  |-> <<FullItem(1, LAUREN, <<"B", "i", "k", "e">>, <<>>, <<>>, NULL, DEFAULT),
                FullItem(2, LAUREN, <<"H", "a", "t">>, <<>>, <<>>, NULL, DEFAULT)>>]

FlightSeeds == {SeedShared, SeedFamilies, SeedLegacy}

FlightIds == 1..2

\* Body of an admin edit that clears the claim of an item.
ClearClaimBody == [claimedByCode |-> <<>>]

\* The requests that can be in flight: claims and unclaims by two viewers,
\* admin edits and deletions of a person, with or without a family.
FlightRequests ==
  {[op |-> o, who |-> v, id |-> i, family |-> f] :
     o \in {"claim", "unclaim"}, v \in Codes, i \in FlightIds, f \in Families}
    \cup {[op |-> "putItem", who |-> UNDEF, id |-> i, family |-> f] : i \in FlightIds, f \in Families}
    \cup {[op |-> "deletePerson", who |-> c, id |-> 0, family |-> f] : c \in {LAUREN, TOM}, f \in Families}

\* The route handler of request r, run on the file.
Serve(file, r) ==
  CASE r.op = "claim" -> Claim(file, r.who, r.id, r.family)
    [] r.op = "unclaim" -> Unclaim(file, r.who, r.id, r.family)
    [] r.op = "putItem" -> UpdateItem(file, r.id, r.family, ClearClaimBody)
    [] r.op = "deletePerson" -> DeletePerson(file, r.who, r.family)

\* The index of the item the handler of r finds (0 when it finds none).
Touched(file, r) ==
  IF r.op = "putItem"
  THEN FindIndex(loadData(file).items, LAMBDA i :
         /\ (NumField(i, "id") = r.id \/ NumField(i, "itemId") = r.id)
         /\ InFamily(i, Or(r.family, DEFAULT)))
  ELSE FindItem(loadData(file).items, r.id, Or(r.family, DEFAULT))

\* No viewer has been told that they claimed the item.
NoOne == [viewer |-> NULL, beside |-> {}]

\* told after the handler of r answered out: res.json({ success: true }) of a
\* claim tells r.who that the item is theirs, and records the requests that
\* were in flight beside r; a successful unclaim or edit of the item, or its
\* deletion, ends that.
ToldAfter(t, file, r, out, others) ==
  IF ~out.resp.success THEN t
  ELSE IF r.op = "deletePerson"
  THEN LET items == loadData(file).items
           kept == SelectSeq([i \in 1..Len(items) |-> i],
                             LAMBDA i : KeptItem(items[i], r.who, Or(r.family, DEFAULT)))
       IN [k \in 1..Len(kept) |-> t[kept[k]]]
  ELSE [t EXCEPT ![Touched(file, r)] =
          IF r.op = "claim" THEN [viewer |-> r.who, beside |-> others] ELSE NoOne]

InitFlight ==
  /\ store \in FlightSeeds
  /\ last = [op |-> "start", resp |-> Ok]
  /\ requests = 0
  /\ flight = {}
  /\ told = [i \in 1..Len(store.items) |-> NoOne]

\* A request arrives; its handler has not run yet.
Arrive ==
  \E r \in FlightRequests \ flight :
    /\ requests < MaxRequests
    /\ flight' = flight \cup {r}
    /\ requests' = requests + 1
    /\ UNCHANGED <<store, last, told>>

\* The handler of one of the requests in flight runs, from loadData to the
\* response, without interruption.
Run ==
  \E r \in flight :
    \E out \in {Serve(store, r)} :
      /\ store' = out.file
      /\ last' = [op |-> r.op, resp |-> out.resp]
      /\ told' = ToldAfter(told, store, r, out, flight \ {r})
      /\ flight' = flight \ {r}
      /\ UNCHANGED requests

NextFlight ==
  \/ Arrive
  \/ Run

SpecFlight == InitFlight /\ [][NextFlight]_vars

\* Items i and j were claimed by two requests that were in flight at the same
\* time: the claim of i was answered success while the claim of j waited, and
\* the claim of j was answered success after it.
RacedClaims(i, j) ==
  /\ i # j
  /\ told[i].viewer # NULL
  /\ told[j].viewer # NULL
  /\ \E r \in told[i].beside :
       r.op = "claim" /\ r.who = told[j].viewer /\ Touched(store, r) = j

\* C11 (as amended): two claims on different items that are in flight at the
\* same time do not race: when both were answered success, the persisted
\* store holds both changes.
C11_NoLostUpdate ==
  /\ Len(told) = Len(store.items)
  /\ \A i, j \in 1..Len(told) :
       RacedClaims(i, j) =>
         /\ ClaimedBy(store, i) = told[i].viewer
         /\ ClaimedBy(store, j) = told[j].viewer

\* Two claims on different items, in flight at the same time, were both
\* answered success, and no request is left in flight.
C11_Witness ==
  /\ flight = {}
  /\ last.op = "claim"
  /\ last.resp.success
  /\ \E i, j \in 1..Len(told) : RacedClaims(i, j) /\ told[i].viewer # told[j].viewer

\* C11 (as stated): when two claims on different items were in flight at the
\* same time and both were answered success, the persisted store holds only
\* the last writer's change: the change of the claim answered first is gone.
C11_LastWriteWins ==
  \A i, j \in 1..Len(told) :
    RacedClaims(i, j) => ClaimedBy(store, i) # told[i].viewer

-----------------------------------------------------------------------------
(* The server started on a store of two families *)

\* The file holds two families with a person of the same code, and the legacy
\* file is left out: the requests are those of Spec.
InitFamilies ==
  /\ store = SeedFamilies
  /\ last = [op |-> "start", resp |-> Ok]
  /\ requests = 0
  /\ flight = {}
  /\ told = <<>>

SpecFamilies == InitFamilies /\ [][Next]_vars

-----------------------------------------------------------------------------
(* The server started on a legacy file *)

\* The file was written before the id, details, tags, claimedByCode and
\* family fields existed: the requests are those of Spec.
InitLegacy ==
  /\ store = SeedLegacy
  /\ last = [op |-> "start", resp |-> Ok]
  /\ requests = 0
  /\ flight = {}
  /\ told = <<>>

SpecLegacy == InitLegacy /\ [][Next]_vars

-----------------------------------------------------------------------------
(* Properties of the person update *)

\* Bodies of a person update: those the server is sent here, an empty one and
\* one with a name and preferences.
EditBodies ==
  PersonBodies \cup {<<>>, [name |-> <<"B", "o">>, preferences |-> <<"x">>]}

\* new is old with the name, preferences and family of the body, and nothing
\* else changed; its family is not blank.
PersonEdit(old, new, body) ==
  /\ DOMAIN new \ {"name", "preferences", "family"} = DOMAIN old \ {"name", "preferences", "family"}
  /\ \A k \in DOMAIN old \ {"name", "preferences", "family"} : new[k] = old[k]
  /\ Get(new, "name") = IF Has(body, "name") THEN String(Or(body["name"], <<>>))
                        ELSE Get(old, "name")
  /\ Get(new, "preferences") = IF Has(body, "preferences") THEN Or(body["preferences"], <<>>)
                               ELSE Get(old, "preferences")
  /\ Get(new, "family") = IF ~Has(body, "family") THEN old["family"]
                          ELSE IF body["family"] = NULL \/ Trim(body["family"]) = <<>> THEN DEFAULT
                          ELSE Trim(body["family"])
  /\ Get(new, "family") \notin {<<>>, NULL, UNDEF}

\* C12: PUT /admin/person/:code. The lookup family is the family of the query,
\* else the family of the body, else "default". When the loaded store has no
\* person with that code in the lookup family the answer is 404 and the file
\* is unchanged. Otherwise the first such person gets the name, preferences
\* and family the body supplies (a blank family becoming "default") and keeps
\* every other field; every other person and every item stays as loaded; the
\* person's family is not blank.
C12_UpdatePerson ==
  LET data == loadData(store) IN
  \A code \in PersonCodes, f \in Families \cup {DEFAULT}, body \in EditBodies :
    LET L == Or(Or(f, Get(body, "family")), DEFAULT)
        found == {i \in 1..Len(data.people) : IsPerson(data.people[i], code, L)}
    IN \A o \in {UpdatePerson(store, code, f, body)} :
         IF found = {} THEN o.resp.status = 404 /\ o.file = store
         ELSE /\ o.resp.success
              /\ o.file.items = data.items
              /\ Len(o.file.people) = Len(data.people)
              /\ \E k \in found :
                   /\ \A j \in found : k <= j
                   /\ \A i \in 1..Len(data.people) : i # k => o.file.people[i] = data.people[i]
                   /\ PersonEdit(data.people[k], o.file.people[k], body)

\* An update has just moved the LAUREN of family Rigsby to the family
\* "default", which has a LAUREN too; the items are those of the seed.
C12_Witness ==
  /\ last.op = "putPerson"
  /\ last.resp.success
  /\ Len(store.people) = 2
  /\ \A i \in 1..2 : store.people[i]["code"] = LAUREN /\ store.people[i]["family"] = DEFAULT
  /\ \E i \in 1..Len(store.items) : store.items[i]["family"] = RIGSBY

-----------------------------------------------------------------------------
(* Mutual exclusion of claims *)

\* C13: whatever requests are in flight and in whatever order their handlers
\* run, after every step (1) an item that a viewer was told they claimed, and
\* that has not since been unclaimed, edited or deleted, has claimedByCode
\* equal to that viewer, and (2) while it stays so, no claim of another viewer
\* on it is answered success.
C13_ClaimsExclusive ==
  [][ /\ \A i \in 1..Len(told') :
           told'[i].viewer # NULL => ClaimedBy(store', i) = told'[i].viewer
      /\ Len(told') = Len(told) =>
           \A i \in 1..Len(told) :
             (told[i].viewer # NULL /\ told'[i].viewer # NULL)
               => told'[i].viewer = told[i].viewer ]_vars

\* Two viewers had claims on the same item in flight at the same time; one was
\* answered success and the other has just been refused.
C13_Witness ==
  /\ last.op = "claim"
  /\ last.resp.message = "This item was already claimed."
  /\ \E i \in 1..Len(told) :
       /\ told[i].viewer \in Codes
       /\ ClaimedBy(store, i) = told[i].viewer
       /\ \E r \in told[i].beside \ flight :
            r.op = "claim" /\ r.who # told[i].viewer /\ Touched(store, r) = i

-----------------------------------------------------------------------------
(* Uniqueness of the person codes *)

\* No two people have codes that are equal ignoring letter case.
UniqueCodes(people) ==
  \A i, j \in 1..Len(people) :
    i # j => ToLowerCase(String(people[i]["code"])) # ToLowerCase(String(people[j]["code"]))

\* The server started on a store whose person codes are unique.
InitUnique ==
  /\ store \in {SeedEmpty, SeedShared, SeedLegacy}
  /\ last = [op |-> "start", resp |-> Ok]
  /\ requests = 0
  /\ flight = {}
  /\ told = <<>>

SpecUnique == InitUnique /\ [][Next]_vars

-----------------------------------------------------------------------------
(* Family isolation *)

\* The elements of a sequence of people or items that are not of the family.
Outside(seq, family) == SelectSeq(seq, LAMBDA x : x["family"] # family)

\* C15: a claim, unclaim, item edit or person deletion issued with family F
\* leaves the people and items of the other families as loaded, none changed,
\* added or removed; when no item with the id (no person with the code) is in
\* family F, the request is answered as not found and the file is unchanged,
\* also when another family has one.
C15_FamilyIsolation ==
  LET data == loadData(store) IN
  \A f \in Families :
    LET F == Or(f, DEFAULT)
        people == Outside(data.people, F)
        items == Outside(data.items, F)
        \* the file is not written, or written with the other families as loaded
        Isolated(o) == \/ o.file = store
                       \/ /\ Outside(o.file.people, F) = people
                          /\ Outside(o.file.items, F) = items
    IN /\ \A id \in ItemIds :
            LET absent == \A i \in 1..Len(data.items) :
                            ~(data.items[i]["id"] = id /\ data.items[i]["family"] = F)
            IN /\ \A v \in Codes :
                    \A c \in {Claim(store, v, id, f)}, u \in {Unclaim(store, v, id, f)} :
                      /\ Isolated(c)
                      /\ Isolated(u)
                      /\ absent => /\ c.resp.message = "Item not found." /\ c.file = store
                                   /\ u.resp.message = "Item not found." /\ u.file = store
               /\ \A body \in {[details |-> <<"n">>], ClearClaimBody} :
                    \A e \in {UpdateItem(store, id, f, body)} :
                      /\ Isolated(e)
                      /\ absent => e.resp.status = 404 /\ e.file = store
       /\ \A code \in PersonCodes :
            \A d \in {DeletePerson(store, code, f)} :
              /\ Isolated(d)
              /\ (\A i \in 1..Len(data.people) : ~IsPerson(data.people[i], code, F))
                   => d.resp.status = 404 /\ d.file = store

\* Two families have an item with the same id, and an edit in the family
\* Rigsby has just changed the details of its item only.
C15_Witness ==
  /\ last.op = "putItem"
  /\ last.resp.success
  /\ \E i, j \in 1..Len(store.items) :
       /\ store.items[i]["id"] = store.items[j]["id"]
       /\ store.items[i]["family"] = RIGSBY /\ store.items[i]["details"] = <<"n">>
       /\ store.items[j]["family"] = DEFAULT /\ store.items[j]["details"] = <<"x">>
====
